---------------------------- MODULE Spec2Model ----------------------------
(***************************************************************************)
(* A model of the pitchy crate: Pitch (a frequency in Hz), its MIDI and    *)
(* name conversions, transposition, and the conversion from and to the     *)
(* symbolic Note (letter, accidental, octave).                             *)
(*                                                                         *)
(* The crate is a library of pure functions.  Every function is an         *)
(* operator computed the way the code computes it; the specifications at   *)
(* the end draw the inputs in Init and apply the functions one call per    *)
(* action, the way the crate's tests drive them.                           *)
(***************************************************************************)
EXTENDS Integers, Sequences, FiniteSets, TLC

VARIABLES
    op,           \* the last call made ("init" before any call)
    text,         \* the &str handed to Pitch::from_str, a sequence of chars
    midi,         \* the u8 handed to Pitch::try_from_midi_number / the test's counter
    hz,           \* the f64 handed to Pitch::new
    semitones,    \* the argument of Pitch::transpose
    pitch,        \* the Result<Pitch, PitchyError> of the latest constructor
    pitch0,       \* the pitch kept by the caller before a conversion round trip
    midiNumber,   \* the Result<u8, PitchyError> of Pitch::try_midi_number
    octave,       \* the Option<i8> of Pitch::octave
    note,         \* the symbolic Note: an input, or the Result of Note::try_from(pitch)
    name,         \* the String of Note::name
    parts,        \* the note name and the octave the caller composed text from
    noteParts     \* the Option<(u8, i8)> of Note::note_parts

vars == <<op, text, midi, hz, semitones, pitch, pitch0, midiNumber, octave,
          note, name, parts, noteParts>>

None == [none |-> TRUE]

(***************************************************************************)
(* Result and Option values.                                               *)
(***************************************************************************)
Ok(v) == [ok |-> TRUE, v |-> v]

\* PitchyError: n is the u8 payload of OutOfMidiRange, 0 for the other kinds.
Err(kind, n) == [ok |-> FALSE, err |-> kind, n |-> n]

IsOk(r) == r # None /\ r.ok

IsErr(r) == r # None /\ ~r.ok

IsErrKind(r, kind) == IsErr(r) /\ r.err = kind

\* A process-terminating failure (an arithmetic-overflow panic), not a value.
Panic == [ok |-> FALSE, err |-> "panic", n |-> 0]

(***************************************************************************)
(* Integer types.                                                          *)
(***************************************************************************)
U8Max == 255

I8Min == -128

I8Max == 127

I16Min == -32768

I16Max == 32767

MidiMax == 127

\* `x as u8` of an integer: truncation to the low 8 bits.
AsU8(x) == x % 256

\* `x as i8` of an integer: the low 8 bits read as two's complement.
AsI8(x) == LET r == x % 256 IN IF r > I8Max THEN r - 256 ELSE r

\* the checked operation done in i8, the octave not widened
CheckedI16_I8(x) == IF x < I8Min \/ x > I8Max THEN None ELSE Ok(x)

\* The Option<i16> of a checked i16 operation whose exact result is x.
CheckedI16(x) == IF x < I16Min \/ x > I16Max THEN None ELSE Ok(x)

\* i16::checked_add, and Option::and_then(|v| v.checked_add(b))
checked_add(a, b) == IF a = None THEN None ELSE CheckedI16(a.v + b)

\* Option::and_then(|v| v.checked_mul(b))
checked_mul(a, b) == IF a = None THEN None ELSE CheckedI16(a.v * b)

\* Rust's `/` on integers truncates toward zero.
TruncDiv(a, b) == IF a >= 0 THEN a \div b ELSE -((-a) \div b)

(***************************************************************************)
(* f64.  A finite positive value is (mant / MantOne) * 2^exp with          *)
(* MantOne <= mant < 2 * MantOne: binary floating point with a short       *)
(* mantissa, rounded after every operation as the hardware does.  Zero,    *)
(* infinity and NaN are the IEEE special values.                           *)
(***************************************************************************)
\* 2^(r/12) for r = 0..11, as mantissas (rounded to nearest).
Pow2Tab == <<16384, 17358, 18390, 19484, 20643, 21870,
             23170, 24548, 26008, 27554, 29193, 30929>>

\* The mantissa of 1.0.
MantOne == Pow2Tab[1]

Float(m, e) == [k |-> "num", mant |-> m, exp |-> e]

FZero == [k |-> "zero", mant |-> 0, exp |-> 0]

FInf == [k |-> "inf", mant |-> 0, exp |-> 0]

FNaN == [k |-> "nan", mant |-> 0, exp |-> 0]

\* 440.0 = 1.71875 * 2^8
F440 == Float(440 * (MantOne \div 256), 8)

\* Round p / d to the nearest mantissa and renormalise.
FRound(p, d, e) ==
    LET q == (p + d \div 2) \div d
    IN IF q >= 2 * MantOne THEN Float(MantOne, e + 1) ELSE Float(q, e)

\* a * b
FMul(a, b) ==
    IF a.k = "nan" \/ b.k = "nan" THEN FNaN
    ELSE IF (a.k = "zero" /\ b.k = "inf") \/ (a.k = "inf" /\ b.k = "zero") THEN FNaN
    ELSE IF a.k = "zero" \/ b.k = "zero" THEN FZero
    ELSE IF a.k = "inf" \/ b.k = "inf" THEN FInf
    ELSE LET p == a.mant * b.mant
         IN IF p >= 2 * MantOne * MantOne
            THEN FRound(p, 2 * MantOne, a.exp + b.exp + 1)
            ELSE FRound(p, MantOne, a.exp + b.exp)

\* a / b for a finite positive b
FDiv(a, b) ==
    IF a.k # "num" THEN a
    ELSE IF a.mant >= b.mant
         THEN Float((a.mant * MantOne) \div b.mant, a.exp - b.exp)
         ELSE Float((a.mant * 2 * MantOne) \div b.mant, a.exp - b.exp - 1)

\* The least mantissa m with m / MantOne >= 2^(j/24), for j = 0..23.
Log2Tab == <<16384, 16865, 17359, 17867, 18391, 18930, 19484, 20055,
             20643, 21248, 21871, 22511, 23171, 23850, 24549, 25268,
             26008, 26771, 27555, 28362, 29193, 30049, 30929, 31836>>

\* math::powf2(n / 12.0): the callers' exponents are all of the form n / 12.0.
powf2(n) == Float(Pow2Tab[(n % 12) + 1], n \div 12)

\* math::log2(x), as the floor of 24 * log2(x): log2(x) lies in
\* [v/24, (v+1)/24).  -inf for zero, +inf for infinity, NaN for NaN.
log2(x) ==
    IF x.k = "zero" THEN [k |-> "neginf", v |-> 0]
    ELSE IF x.k = "inf" THEN [k |-> "posinf", v |-> 0]
    ELSE IF x.k = "nan" THEN [k |-> "nan", v |-> 0]
    ELSE LET j == CHOOSE i \in 0..23 :
                     /\ Log2Tab[i + 1] <= x.mant
                     /\ (i = 23 \/ x.mant < Log2Tab[i + 2])
         IN [k |-> "num", v |-> 24 * x.exp + j]

\* math::round(69.0 + 12.0 * l) for l = log2(..): 69 + 12*l lies in
\* [69 + v/2, 69 + (v+1)/2), whose nearest integer is 69 + ceil(v/2).
round(l) ==
    IF l.k = "num" THEN [k |-> "num", v |-> 69 + ((l.v + 1) \div 2)] ELSE l

(***************************************************************************)
(* Pitch                                                                   *)
(***************************************************************************)
PitchNew(frequency) == [frequency |-> frequency]

\* try_from_midi_number with middle C (60) as the reference instead of A4 (69)
try_from_midi_number_RefC4(m) ==
    IF m > MidiMax THEN Err("OutOfMidiRange", m)
    ELSE Ok(PitchNew(FMul(powf2(m - 60), F440)))

try_from_midi_number(m) ==
    IF m > MidiMax THEN Err("OutOfMidiRange", m)
    ELSE Ok(PitchNew(FMul(powf2(m - 69), F440)))

\* transpose with the sign of the interval inverted
transpose_Inverted(p, k) == PitchNew(FMul(p.frequency, powf2(-k)))

transpose(p, k) == PitchNew(FMul(p.frequency, powf2(k)))

\* (0.0..=127.0).contains(&rounded)
InMidiRange(r) == r.k = "num" /\ 0 <= r.v /\ r.v <= MidiMax

\* the fallback cast without the clamp, truncating
ClampAsU8_NoClamp(r) == IF r.k = "num" THEN AsU8(r.v) ELSE 0

\* rounded.clamp(0.0, 127.0) as u8; NaN casts to 0.
ClampAsU8(r) ==
    IF r.k = "nan" \/ r.k = "neginf" THEN 0
    ELSE IF r.k = "posinf" THEN MidiMax
    ELSE IF r.v < 0 THEN 0 ELSE IF r.v > MidiMax THEN MidiMax ELSE r.v

Rounded(p) == round(log2(FDiv(p.frequency, F440)))

try_midi_number(p) ==
    LET rounded == Rounded(p)
    IN IF InMidiRange(rounded) THEN Ok(rounded.v)
       ELSE Err("OutOfMidiRange", ClampAsU8(rounded))

\* the octave counted from 0 at MIDI 0, without the offset of octave -1
PitchOctave_NoOffset(p) ==
    LET r == try_midi_number(p)
    IN IF r.ok THEN Ok(TruncDiv(AsI8(r.v), 12)) ELSE None

\* self.try_midi_number().ok().map(|midi| midi as i8 / 12 - 1)
PitchOctave(p) ==
    LET r == try_midi_number(p)
    IN IF r.ok THEN Ok(TruncDiv(AsI8(r.v), 12) - 1) ELSE None

\* Note::midi_number of the Note that is a frequency: Some(rounded as u8) in
\* the MIDI range, else None.
midi_number(n) ==
    LET rounded == Rounded(n)
    IN IF InMidiRange(rounded) THEN Ok(AsU8(rounded.v)) ELSE None

\* Note::note_parts: self.midi_number().map(|midi| (midi % 12, midi as i8 / 12 - 1))
note_parts(n) ==
    LET r == midi_number(n)
    IN IF r = None THEN None
       ELSE Ok(<<r.v % 12, TruncDiv(AsI8(r.v), 12) - 1>>)

(***************************************************************************)
(* &str.  A text is a sequence of chars; a char is a one-character string, *)
(* or "U266F" / "U266D" for the sharp and flat signs, which take three     *)
(* bytes in UTF-8.                                                         *)
(***************************************************************************)
UpperLetters == <<"A", "B", "C", "D", "E", "F", "G", "H", "X">>

LowerLetters == <<"a", "b", "c", "d", "e", "f", "g", "h", "x">>

Digits == <<"0", "1", "2", "3", "4", "5", "6", "7", "8", "9">>

MultiByte == {"U266F", "U266D"}

\* every char counted as one byte, as chars().count() does
len_utf8_OneByte(c) == 1

\* char::len_utf8
len_utf8(c) == IF c \in MultiByte THEN 3 ELSE 1

\* str::len: the length in bytes
RECURSIVE StrLen(_)
StrLen(s) == IF s = <<>> THEN 0 ELSE len_utf8(Head(s)) + StrLen(Tail(s))

is_whitespace(c) == c = " "

is_ascii_digit(c) == \E i \in 1..Len(Digits) : Digits[i] = c

to_digit(c) == (CHOOSE i \in 1..Len(Digits) : Digits[i] = c) - 1

to_ascii_lowercase(c) ==
    IF \E i \in 1..Len(UpperLetters) : UpperLetters[i] = c
    THEN LowerLetters[CHOOSE i \in 1..Len(UpperLetters) : UpperLetters[i] = c]
    ELSE c

\* str::eq_ignore_ascii_case
eq_ignore_ascii_case(a, b) ==
    /\ Len(a) = Len(b)
    /\ \A i \in 1..Len(a) : to_ascii_lowercase(a[i]) = to_ascii_lowercase(b[i])

\* str::trim
RECURSIVE trim_start(_)
trim_start(s) ==
    IF s # <<>> /\ is_whitespace(Head(s)) THEN trim_start(Tail(s)) ELSE s

RECURSIVE trim_end(_)
trim_end(s) ==
    IF s # <<>> /\ is_whitespace(s[Len(s)])
    THEN trim_end(SubSeq(s, 1, Len(s) - 1)) ELSE s

trim(s) == trim_end(trim_start(s))

\* s.find(|c: char| c.is_ascii_digit() || c == '-'): the position of the
\* first such char (from 1), or None.
find_octave(s) ==
    LET hits == {i \in 1..Len(s) : is_ascii_digit(s[i]) \/ s[i] = "-"}
    IN IF hits = {} THEN None
       ELSE Ok(CHOOSE i \in hits : \A j \in hits : i <= j)

\* the fold stopping at the first char that is not a digit, as atoi does
RECURSIVE parse_digits_Prefix(_, _, _)
parse_digits_Prefix(ds, acc, sign) ==
    IF ds = <<>> \/ ~is_ascii_digit(Head(ds)) THEN Ok(acc)
    ELSE LET next == acc * 10 + sign * to_digit(Head(ds))
         IN IF next < I8Min \/ next > I8Max THEN None
            ELSE parse_digits_Prefix(Tail(ds), next, sign)

\* The digits of an integer text folded from the left, as i8::from_str does:
\* acc * 10 + d for a positive number, acc * 10 - d for a negative one, with
\* an error as soon as the i8 range is left or a char is not a digit.
RECURSIVE parse_digits(_, _, _)
parse_digits(ds, acc, sign) ==
    IF ds = <<>> THEN Ok(acc)
    ELSE IF ~is_ascii_digit(Head(ds)) THEN None
    ELSE LET next == acc * 10 + sign * to_digit(Head(ds))
         IN IF next < I8Min \/ next > I8Max THEN None
            ELSE parse_digits(Tail(ds), next, sign)

\* parse that reads the digits and drops the sign
parse_i8_Unsigned(s) ==
    IF s = <<>> THEN None
    ELSE IF Head(s) \in {"-", "+"} THEN
        (IF Tail(s) = <<>> THEN None ELSE parse_digits(Tail(s), 0, 1))
    ELSE parse_digits(s, 0, 1)

\* str::parse::<i8>: an optional sign, then one or more decimal digits.
parse_i8(s) ==
    IF s = <<>> THEN None
    ELSE IF Head(s) = "-" THEN
        (IF Tail(s) = <<>> THEN None ELSE parse_digits(Tail(s), 0, -1))
    ELSE IF Head(s) = "+" THEN
        (IF Tail(s) = <<>> THEN None ELSE parse_digits(Tail(s), 0, 1))
    ELSE parse_digits(s, 0, 1)

MinNameLen == 2

MaxNameLen == 4

\* the match with the flat names moved one pair up (Db with D#, Eb with F#, ...)
semitone_of_FlatUp(n) ==
    IF eq_ignore_ascii_case(n, <<"C">>) THEN Ok(0)
    ELSE IF eq_ignore_ascii_case(n, <<"C", "#">>)
            \/ eq_ignore_ascii_case(n, <<"B", "b">>) THEN Ok(1)
    ELSE IF eq_ignore_ascii_case(n, <<"D">>) THEN Ok(2)
    ELSE IF eq_ignore_ascii_case(n, <<"D", "#">>)
            \/ eq_ignore_ascii_case(n, <<"D", "b">>) THEN Ok(3)
    ELSE IF eq_ignore_ascii_case(n, <<"E">>) THEN Ok(4)
    ELSE IF eq_ignore_ascii_case(n, <<"F">>) THEN Ok(5)
    ELSE IF eq_ignore_ascii_case(n, <<"F", "#">>)
            \/ eq_ignore_ascii_case(n, <<"E", "b">>) THEN Ok(6)
    ELSE IF eq_ignore_ascii_case(n, <<"G">>) THEN Ok(7)
    ELSE IF eq_ignore_ascii_case(n, <<"G", "#">>)
            \/ eq_ignore_ascii_case(n, <<"G", "b">>) THEN Ok(8)
    ELSE IF eq_ignore_ascii_case(n, <<"A">>) THEN Ok(9)
    ELSE IF eq_ignore_ascii_case(n, <<"A", "#">>)
            \/ eq_ignore_ascii_case(n, <<"A", "b">>) THEN Ok(10)
    ELSE IF eq_ignore_ascii_case(n, <<"B">>) THEN Ok(11)
    ELSE None

\* The match on note_part of Pitch::from_str: the semitone, or None for the
\* `_` arm.
semitone_of(n) ==
    IF eq_ignore_ascii_case(n, <<"C">>) THEN Ok(0)
    ELSE IF eq_ignore_ascii_case(n, <<"C", "#">>)
            \/ eq_ignore_ascii_case(n, <<"D", "b">>) THEN Ok(1)
    ELSE IF eq_ignore_ascii_case(n, <<"D">>) THEN Ok(2)
    ELSE IF eq_ignore_ascii_case(n, <<"D", "#">>)
            \/ eq_ignore_ascii_case(n, <<"E", "b">>) THEN Ok(3)
    ELSE IF eq_ignore_ascii_case(n, <<"E">>) THEN Ok(4)
    ELSE IF eq_ignore_ascii_case(n, <<"F">>) THEN Ok(5)
    ELSE IF eq_ignore_ascii_case(n, <<"F", "#">>)
            \/ eq_ignore_ascii_case(n, <<"G", "b">>) THEN Ok(6)
    ELSE IF eq_ignore_ascii_case(n, <<"G">>) THEN Ok(7)
    ELSE IF eq_ignore_ascii_case(n, <<"G", "#">>)
            \/ eq_ignore_ascii_case(n, <<"A", "b">>) THEN Ok(8)
    ELSE IF eq_ignore_ascii_case(n, <<"A">>) THEN Ok(9)
    ELSE IF eq_ignore_ascii_case(n, <<"A", "#">>)
            \/ eq_ignore_ascii_case(n, <<"B", "b">>) THEN Ok(10)
    ELSE IF eq_ignore_ascii_case(n, <<"B">>) THEN Ok(11)
    ELSE None

\* the MIDI number without the octave offset: octave 0 at MIDI 0
checked_midi_NoOffset(oct, semitone) ==
    checked_add(checked_mul(Ok(oct), 12), semitone)

\* (octave as i16).checked_add(1).and_then(|v| v.checked_mul(12))
\*     .and_then(|v| v.checked_add(semitone as i16))
checked_midi(oct, semitone) ==
    checked_add(checked_mul(checked_add(Ok(oct), 1), 12), semitone)

\* from_str with the note-part matched before the octave-part is parsed
from_str_NameFirst(str) ==
    LET s == trim(str)
    IN IF StrLen(s) < MinNameLen \/ StrLen(s) > MaxNameLen
       THEN Err("InvalidName", 0)
       ELSE LET split_index == find_octave(s)
            IN IF split_index = None THEN Err("InvalidOctave", 0)
               ELSE LET note_part == SubSeq(s, 1, split_index.v - 1)
                        octave_str == SubSeq(s, split_index.v, Len(s))
                        semitone == semitone_of(note_part)
                    IN IF semitone = None THEN Err("InvalidName", 0)
                       ELSE LET oct == parse_i8(octave_str)
                            IN IF oct = None THEN Err("InvalidOctave", 0)
                               ELSE LET m == checked_midi(oct.v, semitone.v)
                                    IN IF m = None THEN Err("MidiOverflow", 0)
                                       ELSE IF ~(0 <= m.v /\ m.v <= MidiMax)
                                       THEN Err("OutOfMidiRange", AsU8(m.v))
                                       ELSE Ok(PitchNew(FMul(powf2(m.v - 69), F440)))

\* <Pitch as FromStr>::from_str
from_str(str) ==
    LET s == trim(str)
    IN IF StrLen(s) < MinNameLen \/ StrLen(s) > MaxNameLen
       THEN Err("InvalidName", 0)
       ELSE LET split_index == find_octave(s)
            IN IF split_index = None THEN Err("InvalidOctave", 0)
               ELSE LET note_part == SubSeq(s, 1, split_index.v - 1)
                        octave_str == SubSeq(s, split_index.v, Len(s))
                        oct == parse_i8(octave_str)
                    IN IF oct = None THEN Err("InvalidOctave", 0)
                       ELSE LET semitone == semitone_of(note_part)
                            IN IF semitone = None THEN Err("InvalidName", 0)
                               ELSE LET m == checked_midi(oct.v, semitone.v)
                                    IN IF m = None THEN Err("MidiOverflow", 0)
                                       ELSE IF ~(0 <= m.v /\ m.v <= MidiMax)
                                       THEN Err("OutOfMidiRange", AsU8(m.v))
                                       ELSE Ok(PitchNew(FMul(powf2(m.v - 69), F440)))

(***************************************************************************)
(* NoteLetter and Accidental                                               *)
(***************************************************************************)
\* NoteLetter::all()
NoteLetters == <<"C", "D", "E", "F", "G", "A", "B">>

\* the letter offsets with F one semitone too high
LetterOffset_F6(l) ==
    CASE l = "C" -> 0 [] l = "D" -> 2 [] l = "E" -> 4 [] l = "F" -> 6
      [] l = "G" -> 7 [] l = "A" -> 9 [] l = "B" -> 11

\* `letter as i8`: the repr(u8) discriminant
LetterOffset(l) ==
    CASE l = "C" -> 0 [] l = "D" -> 2 [] l = "E" -> 4 [] l = "F" -> 5
      [] l = "G" -> 7 [] l = "A" -> 9 [] l = "B" -> 11

\* NoteLetter::as_str
LetterStr(l) == <<l>>

Accidentals == {"DoubleFlat", "Flat", "Natural", "Sharp", "DoubleSharp"}

\* `accidental as i8`: the repr(i8) discriminant
AccidentalOffset(a) ==
    CASE a = "DoubleFlat" -> -2 [] a = "Flat" -> -1 [] a = "Natural" -> 0
      [] a = "Sharp" -> 1 [] a = "DoubleSharp" -> 2

\* Accidental::as_str; the double accidentals are the chars U+1D12A, U+1D12B
AccidentalStr(a) ==
    CASE a = "Natural" -> <<>> [] a = "Sharp" -> <<"#">> [] a = "Flat" -> <<"b">>
      [] a = "DoubleSharp" -> <<"U1D12A">> [] a = "DoubleFlat" -> <<"U1D12B">>

(***************************************************************************)
(* The symbolic Note: letter, accidental and an i8 octave.                 *)
(***************************************************************************)
NoteNew(l, a, o) == [letter |-> l, accidental |-> a, octave |-> o]

\* The value of an i8 operation whose exact result is x: with overflow
\* checks (a debug build) an overflow panics, without them (a release build)
\* it wraps.  None stands for the panic.
I8Op(x, overflow_checks) ==
    IF I8Min <= x /\ x <= I8Max THEN Ok(x)
    ELSE IF overflow_checks THEN None ELSE Ok(AsI8(x))

\* ((note.octave() + 1) * 12 + semitone) of <Pitch as TryFrom<Note>>::try_from,
\* computed in i8.
NoteMidiI8(n, overflow_checks) ==
    LET semitone == LetterOffset(n.letter) + AccidentalOffset(n.accidental)
        a == I8Op(n.octave + 1, overflow_checks)
        b == IF a = None THEN None ELSE I8Op(a.v * 12, overflow_checks)
    IN IF b = None THEN None ELSE I8Op(b.v + semitone, overflow_checks)

\* try_from that hands the octave's first MIDI number on without the semitone
PitchTryFrom_NoSemitone(n, overflow_checks) ==
    LET m == I8Op((n.octave + 1) * 12, FALSE)
    IN IF ~(0 <= m.v /\ m.v <= MidiMax)
       THEN Err("OutOfMidiRange", AsU8(m.v))
       ELSE try_from_midi_number(AsU8(m.v))

\* <Pitch as TryFrom<Note>>::try_from
PitchTryFrom(n, overflow_checks) ==
    LET m == NoteMidiI8(n, overflow_checks)
    IN IF m = None THEN Panic
       ELSE IF ~(0 <= m.v /\ m.v <= MidiMax)
       THEN Err("OutOfMidiRange", AsU8(m.v))
       ELSE try_from_midi_number(AsU8(m.v))

\* The accidentals in the order the spelling search tries them.
SpellingOrder == <<"Natural", "Sharp", "Flat", "DoubleSharp", "DoubleFlat">>

\* The first (accidental, letter) pair, in search order, whose offsets add
\* up to the semitone; None when there is none.
Spell(semitone) ==
    LET hits == {<<i, j>> \in (1..Len(SpellingOrder)) \X (1..Len(NoteLetters)) :
                    LetterOffset(NoteLetters[j])
                        + AccidentalOffset(SpellingOrder[i]) = semitone}
    IN IF hits = {} THEN None
       ELSE LET first == CHOOSE h \in hits : \A g \in hits :
                              h[1] < g[1] \/ (h[1] = g[1] /\ h[2] <= g[2])
            IN Ok([letter |-> NoteLetters[first[2]],
                   accidental |-> SpellingOrder[first[1]]])

\* <Note as TryFrom<Pitch>>::try_from
NoteTryFrom(p) ==
    LET m == try_midi_number(p)
    IN IF ~m.ok THEN m
       ELSE LET sp == Spell(m.v % 12)
            IN IF sp = None THEN Err("Unspelled", 0)
               ELSE Ok(NoteNew(sp.v.letter, sp.v.accidental, m.v \div 12 - 1))

\* The decimal text of an integer, as Display for i8 writes it.
RECURSIVE FormatNat(_)
FormatNat(n) ==
    IF n < 10 THEN <<Digits[n + 1]>>
    ELSE FormatNat(n \div 10) \o <<Digits[(n % 10) + 1]>>

FormatInt(n) == IF n < 0 THEN <<"-">> \o FormatNat(-n) ELSE FormatNat(n)

\* Note::name
NoteName(n) ==
    LetterStr(n.letter) \o AccidentalStr(n.accidental) \o FormatInt(n.octave)

(***************************************************************************)
(* Bounds of the inputs.                                                   *)
(***************************************************************************)
\* transpose is called with -MaxSemitones .. MaxSemitones
MaxSemitones == 128

\* the note-part of a text has up to MaxNoteLen chars
MaxNoteLen == 3

\* a text has up to MaxTextLen chars
MaxTextLen == 5

\* the octave of a note name is written with up to MaxDigits digits
MaxDigits == 3

(***************************************************************************)
(* The calls, one action each.                                             *)
(***************************************************************************)
\* The caller is the loop of test_pitch_note_from_str_roundtrip, which asks
\* for the MIDI number after the name.
InTestLoop == parts # None /\ midi # None

\* Pitch::try_from_midi_number(midi)
TryFromMidiNumber ==
    /\ op = "init" /\ midi # None
    /\ pitch' = try_from_midi_number(midi.v)
    /\ op' = "try_from_midi_number"
    /\ UNCHANGED <<text, midi, hz, semitones, pitch0, midiNumber, octave, note,
                   name, parts, noteParts>>

\* Pitch::new(hz)
New ==
    /\ op = "init" /\ hz # None
    /\ pitch' = Ok(PitchNew(hz.v))
    /\ op' = "new"
    /\ UNCHANGED <<text, midi, hz, semitones, pitch0, midiNumber, octave, note,
                   name, parts, noteParts>>

\* Pitch::from_str(text)
FromStr ==
    /\ op \in {"init", "format", "respell"} /\ text # <<>>
    /\ pitch' = from_str(text)
    /\ op' = "from_str"
    /\ UNCHANGED <<text, midi, hz, semitones, pitch0, midiNumber, octave, note,
                   name, parts, noteParts>>

\* pitch.transpose(k)
Transpose ==
    /\ op \in {"try_from_midi_number", "new"} /\ IsOk(pitch)
    /\ \E k \in -MaxSemitones..MaxSemitones :
          /\ semitones' = Ok(k)
          /\ pitch' = Ok(transpose(pitch.v, k))
    /\ op' = "transpose"
    /\ UNCHANGED <<text, midi, hz, pitch0, midiNumber, octave, note, name, parts,
                   noteParts>>

\* pitch.try_midi_number()
TryMidiNumber ==
    /\ \/ op \in {"try_from_midi_number", "new", "from_str", "transpose",
                  "pitch_try_from"} /\ ~InTestLoop
       \/ op = "name" /\ InTestLoop
    /\ IsOk(pitch)
    /\ midiNumber' = try_midi_number(pitch.v)
    /\ op' = "try_midi_number"
    /\ UNCHANGED <<text, midi, hz, semitones, pitch, pitch0, octave, note, name,
                   parts, noteParts>>

\* pitch.octave()
Octave ==
    /\ op = "try_midi_number" /\ pitch0 = None
    /\ octave' = PitchOctave(pitch.v)
    /\ op' = "octave"
    /\ UNCHANGED <<text, midi, hz, semitones, pitch, pitch0, midiNumber, note,
                   name, parts, noteParts>>

\* Note::new(pitch.frequency()).note_parts(): the Note of the same frequency
NoteParts ==
    /\ op = "octave"
    /\ noteParts' = note_parts(pitch.v)
    /\ op' = "note_parts"
    /\ UNCHANGED <<text, midi, hz, semitones, pitch, pitch0, midiNumber, octave,
                   note, name, parts>>

\* Note::try_from(pitch); the caller keeps the pitch
NoteTryFromPitch ==
    /\ op \in {"octave", "from_str"} /\ IsOk(pitch) /\ note = None
    /\ note' = NoteTryFrom(pitch.v)
    /\ pitch0' = pitch
    /\ op' = "note_try_from"
    /\ UNCHANGED <<text, midi, hz, semitones, pitch, midiNumber, octave, name,
                   parts, noteParts>>

\* note.name()
Name ==
    /\ op = "note_try_from" /\ IsOk(note)
    /\ name' = Ok(NoteName(note.v))
    /\ op' = "name"
    /\ UNCHANGED <<text, midi, hz, semitones, pitch, pitch0, midiNumber, octave,
                   note, parts, noteParts>>

\* Pitch::try_from(note), in a debug or in a release build
PitchTryFromNote ==
    /\ op \in {"init", "name"} /\ IsOk(note)
    /\ \E overflow_checks \in BOOLEAN :
          pitch' = PitchTryFrom(note.v, overflow_checks)
    /\ op' = "pitch_try_from"
    /\ midiNumber' = None
    /\ UNCHANGED <<text, midi, hz, semitones, pitch0, octave, note, name, parts,
                   noteParts>>

(***************************************************************************)
(* Spec: a pitch made from a MIDI number or a frequency, transposed or     *)
(* not, then queried, converted to a Note and back.                        *)
(***************************************************************************)
\* Frequencies handed to Pitch::new: the special values, A4, and 1 Hz
Frequencies == {FZero, FInf, FNaN, F440, Float(MantOne, 0)}

Init ==
    /\ op = "init"
    /\ text = <<>>
    /\ \/ midi \in {Ok(m) : m \in 0..U8Max} /\ hz = None
       \/ midi = None /\ hz \in {Ok(f) : f \in Frequencies}
    /\ semitones = None
    /\ pitch = None
    /\ pitch0 = None
    /\ midiNumber = None
    /\ octave = None
    /\ note = None
    /\ name = None
    /\ parts = None
    /\ noteParts = None

Next ==
    \/ TryFromMidiNumber
    \/ New
    \/ Transpose
    \/ TryMidiNumber
    \/ Octave
    \/ NoteParts
    \/ NoteTryFromPitch
    \/ Name
    \/ PitchTryFromNote

Spec == Init /\ [][Next]_vars

(***************************************************************************)
(* Properties of Spec.                                                     *)
(***************************************************************************)
\* The pitch in hand was made by try_from_midi_number(midi) and not transposed.
FromMidiUntransposed == midi # None /\ semitones = None

\* C2: for every m in 0..127, try_from_midi_number(m) succeeds and
\* try_midi_number() of the result is Ok(m).
C2_MidiRoundTrip ==
    (FromMidiUntransposed /\ midi.v <= MidiMax /\ pitch0 = None) =>
        /\ op = "try_from_midi_number" => IsOk(pitch)
        /\ op = "try_midi_number" => midiNumber = Ok(midi.v)

C2_Witness ==
    /\ FromMidiUntransposed /\ pitch0 = None /\ op = "try_midi_number"
    /\ midi.v = MidiMax /\ midiNumber = Ok(MidiMax)

\* The rounded value 69 + 12*log2(f/440) of the pitch in hand is below 0.
RoundedBelow(p) ==
    LET r == Rounded(p) IN r.k = "neginf" \/ (r.k = "num" /\ r.v < 0)

\* The rounded value 69 + 12*log2(f/440) of the pitch in hand is above 127.
RoundedAbove(p) ==
    LET r == Rounded(p) IN r.k = "posinf" \/ (r.k = "num" /\ r.v > MidiMax)

\* C4: try_from_midi_number(midi) fails, with OutOfMidiRange, exactly when
\* midi > 127; try_midi_number succeeds exactly when the rounded value lies in
\* 0..127, and fails with OutOfMidiRange(0) when it is below 0 and with
\* OutOfMidiRange(127) when it is above 127.
C4_Boundary ==
    /\ op = "try_from_midi_number" =>
          /\ IsErr(pitch) <=> midi.v > MidiMax
          /\ IsErr(pitch) => pitch.err = "OutOfMidiRange"
    /\ (op = "try_midi_number" /\ pitch0 = None) =>
          /\ IsOk(midiNumber) <=>
                (~RoundedBelow(pitch.v) /\ ~RoundedAbove(pitch.v)
                    /\ Rounded(pitch.v).k = "num")
          /\ IsOk(midiNumber) => midiNumber.v \in 0..MidiMax
          /\ RoundedBelow(pitch.v) => midiNumber = Err("OutOfMidiRange", 0)
          /\ RoundedAbove(pitch.v) => midiNumber = Err("OutOfMidiRange", MidiMax)

C4_Witness ==
    /\ op = "try_midi_number" /\ midi = Ok(0) /\ semitones = Ok(-1)
    /\ RoundedBelow(pitch.v) /\ midiNumber = Err("OutOfMidiRange", 0)

\* C7: for every m in 0..127 and every k, transpose on the pitch of MIDI m
\* returns a pitch; its try_midi_number() is Ok(m+k) when 0 <= m+k <= 127,
\* OutOfMidiRange(0) when m+k < 0 and OutOfMidiRange(127) when m+k > 127.
C7_Transpose ==
    (midi # None /\ semitones # None /\ pitch0 = None) =>
        /\ op = "transpose" => IsOk(pitch)
        /\ op = "try_midi_number" =>
              LET t == midi.v + semitones.v
              IN /\ (0 <= t /\ t <= MidiMax) => midiNumber = Ok(t)
                 /\ t < 0 => midiNumber = Err("OutOfMidiRange", 0)
                 /\ t > MidiMax => midiNumber = Err("OutOfMidiRange", MidiMax)

C7_Witness ==
    /\ op = "try_midi_number" /\ midi = Ok(60) /\ semitones = Ok(2)
    /\ midiNumber = Ok(62) /\ pitch0 = None

\* note::NOTE_NAMES
NOTE_NAMES == << <<"C">>, <<"C", "#">>, <<"D">>, <<"D", "#">>, <<"E">>, <<"F">>,
                <<"F", "#">>, <<"G">>, <<"G", "#">>, <<"A">>, <<"A", "#">>,
                <<"B">> >>

\* C8: the spelling of every pitch with a MIDI number m is a natural or a
\* sharp, its letter and accidental texts make entry m mod 12 of NOTE_NAMES,
\* and its octave is m/12 - 1; the search never ends Unspelled.
C8_SharpBiasedSpelling ==
    (op = "note_try_from" /\ IsOk(midiNumber)) =>
        /\ IsOk(note)
        /\ note.v.accidental \in {"Natural", "Sharp"}
        /\ LetterStr(note.v.letter) \o AccidentalStr(note.v.accidental)
               = NOTE_NAMES[(midiNumber.v % 12) + 1]
        /\ note.v.octave = TruncDiv(midiNumber.v, 12) - 1

C8_Witness ==
    /\ op = "note_try_from" /\ midiNumber = Ok(66)
    /\ note = Ok(NoteNew("F", "Sharp", 4))

\* C9: for every m in 0..127 the pitch of m converts to a Note, the Note
\* converts back to a Pitch, and that pitch has the frequency and the MIDI
\* number of the first.
C9_PitchNoteRoundTrip ==
    (FromMidiUntransposed /\ midi.v <= MidiMax) =>
        /\ op = "note_try_from" => IsOk(note)
        /\ op = "pitch_try_from" => (IsOk(pitch) /\ pitch = pitch0)
        /\ (op = "try_midi_number" /\ pitch0 # None) => midiNumber = Ok(midi.v)

C9_Witness ==
    /\ FromMidiUntransposed /\ midi.v = MidiMax /\ op = "try_midi_number"
    /\ pitch0 # None /\ pitch = pitch0 /\ midiNumber = Ok(MidiMax)

\* C14: the octave and the note parts of a pitch are present exactly when
\* its MIDI number is; for the MIDI number m the octave is m / 12 - 1 and
\* lies in -1..9, the semitone is m mod 12 and lies in 0..11, and
\* (octave + 1) * 12 + semitone = m.
C14_OctaveParts ==
    op = "note_parts" =>
        /\ IsOk(octave) <=> IsOk(midiNumber)
        /\ IsOk(noteParts) <=> IsOk(midiNumber)
        /\ IsOk(midiNumber) =>
              LET m == midiNumber.v
                  semitone == noteParts.v[1]
              IN /\ octave.v = (m \div 12) - 1
                 /\ octave.v \in -1..9
                 /\ noteParts.v[2] = octave.v
                 /\ semitone = m % 12 /\ semitone \in 0..11
                 /\ (octave.v + 1) * 12 + semitone = m

\* the lowest MIDI number, reached by transposing down
C14_Witness ==
    /\ op = "note_parts" /\ semitones # None
    /\ midiNumber = Ok(0) /\ octave = Ok(-1) /\ noteParts = Ok(<<0, -1>>)

(***************************************************************************)
(* SpecNote: every symbolic Note converted to a Pitch.                     *)
(***************************************************************************)
Notes ==
    {NoteNew(NoteLetters[i], a, o) :
        i \in 1..Len(NoteLetters), a \in Accidentals, o \in I8Min..I8Max}

InitNote ==
    /\ op = "init"
    /\ text = <<>>
    /\ midi = None
    /\ hz = None
    /\ semitones = None
    /\ pitch = None
    /\ pitch0 = None
    /\ midiNumber = None
    /\ octave = None
    /\ note \in {Ok(n) : n \in Notes}
    /\ name = None
    /\ parts = None
    /\ noteParts = None

NextNote ==
    \/ PitchTryFromNote
    \/ TryMidiNumber

SpecNote == InitNote /\ [][NextNote]_vars

\* The exact value of (octave + 1) * 12 + letter offset + accidental offset.
ExactMidi(n) ==
    (n.octave + 1) * 12 + LetterOffset(n.letter) + AccidentalOffset(n.accidental)

\* C5: Pitch::try_from(note) returns Ok, with the pitch of that MIDI number,
\* exactly when the exact value of (octave+1)*12 + letter + accidental lies in
\* 0..127, and otherwise an OutOfMidiRange or MidiOverflow error value: no
\* octave makes the i8 arithmetic wrap into a valid MIDI number or panic.
C5_NoteToPitchChecked ==
    (op = "pitch_try_from" /\ pitch0 = None) =>
        LET exact == ExactMidi(note.v)
        IN IF 0 <= exact /\ exact <= MidiMax
           THEN pitch = try_from_midi_number(exact)
           ELSE IsErr(pitch) /\ pitch.err \in {"OutOfMidiRange", "MidiOverflow"}

(***************************************************************************)
(* SpecName: every accepted spelling, in every case, followed by every     *)
(* signed decimal octave of up to MaxDigits digits, parsed and queried;    *)
(* a sharp name is then respelled as its flat and parsed again.            *)
(***************************************************************************)
\* The 17 accepted spellings.
Spellings ==
    {<<"C">>, <<"C", "#">>, <<"D", "b">>, <<"D">>, <<"D", "#">>, <<"E", "b">>,
     <<"E">>, <<"F">>, <<"F", "#">>, <<"G", "b">>, <<"G">>, <<"G", "#">>,
     <<"A", "b">>, <<"A">>, <<"A", "#">>, <<"B", "b">>, <<"B">>}

\* The texts of n chars over the set S.
TextsOfLen(S, n) == [1..n -> S]

\* A char in its two cases.
BothCases(c) ==
    {c} \cup {UpperLetters[i] : i \in {j \in 1..Len(UpperLetters) : LowerLetters[j] = c}}
        \cup {LowerLetters[i] : i \in {j \in 1..Len(UpperLetters) : UpperLetters[j] = c}}

\* A spelling with each letter in either case.
CaseVariants(sp) ==
    {t \in TextsOfLen(UNION {BothCases(sp[i]) : i \in 1..Len(sp)}, Len(sp)) :
        \A i \in 1..Len(sp) : t[i] \in BothCases(sp[i])}

\* The decimal texts: an optional minus sign and 1..MaxDigits digits.
OctaveTexts ==
    {sign \o ds : sign \in {<<>>, <<"-">>},
                  ds \in UNION {TextsOfLen({Digits[i] : i \in 1..Len(Digits)}, n) :
                                   n \in 1..MaxDigits}}

\* The number a decimal text denotes, by the place value of its digits.
DecimalValue(t) ==
    LET ds == IF Head(t) = "-" THEN Tail(t) ELSE t
        RECURSIVE Sum(_)
        Sum(i) == IF i > Len(ds) THEN 0
                  ELSE to_digit(ds[i]) * 10 ^ (Len(ds) - i) + Sum(i + 1)
    IN IF Head(t) = "-" THEN -Sum(1) ELSE Sum(1)

\* The semitone a spelling denotes: its letter's offset, one up for a sharp,
\* one down for a flat.
SpellingSemitone(sp) ==
    LET l == CHOOSE x \in BothCases(sp[1]) : \E i \in 1..Len(NoteLetters) : NoteLetters[i] = x
    IN LetterOffset(l)
         + (IF Len(sp) = 1 THEN 0 ELSE IF sp[2] = "#" THEN 1 ELSE -1)

\* The flat spelling of a sharp one.
FlatOf(sp) ==
    LET l == CHOOSE x \in BothCases(sp[1]) : \E i \in 1..Len(NoteLetters) : NoteLetters[i] = x
        j == CHOOSE i \in 1..Len(NoteLetters) : NoteLetters[i] = l
    IN <<NoteLetters[(j % Len(NoteLetters)) + 1], "b">>

IsSharp(sp) == Len(sp) = 2 /\ sp[2] = "#"

InitName ==
    /\ op = "init"
    /\ \E sp \in Spellings : \E v \in CaseVariants(sp) : \E o \in OctaveTexts :
          /\ parts = [name |-> v, octave |-> o]
          /\ text = v \o o
    /\ midi = None
    /\ hz = None
    /\ semitones = None
    /\ pitch = None
    /\ pitch0 = None
    /\ midiNumber = None
    /\ octave = None
    /\ note = None
    /\ name = None
    /\ noteParts = None

\* The caller keeps the pitch of a sharp name and writes the name with the
\* enharmonic flat.
Respell ==
    /\ op = "from_str" /\ pitch0 = None /\ IsSharp(parts.name)
    /\ \E v \in CaseVariants(FlatOf(parts.name)) :
          /\ parts' = [name |-> v, octave |-> parts.octave]
          /\ text' = v \o parts.octave
    /\ pitch0' = pitch
    /\ op' = "respell"
    /\ UNCHANGED <<midi, hz, semitones, pitch, midiNumber, octave, note, name,
                   noteParts>>

NextName ==
    \/ FromStr
    \/ TryMidiNumber
    \/ Octave
    \/ Respell

SpecName == InitName /\ [][NextName]_vars

\* The MIDI number the name in parts denotes.
NameMidi == (DecimalValue(parts.octave) + 1) * 12 + SpellingSemitone(parts.name)

\* C1: for every text made of an accepted spelling in any case and a signed
\* decimal octave, of length 2..4 and with (octave+1)*12+semitone in 0..127,
\* from_str succeeds, the pitch has that MIDI number, and octave() is the
\* octave written.
C1_FromStrMidi ==
    (op \in {"from_str", "try_midi_number", "octave"}
        /\ StrLen(text) >= MinNameLen /\ StrLen(text) <= MaxNameLen
        /\ 0 <= NameMidi /\ NameMidi <= MidiMax) =>
        /\ pitch = try_from_midi_number(NameMidi)
        /\ op = "try_midi_number" => midiNumber = Ok(NameMidi)
        /\ op = "octave" => octave = Ok(DecimalValue(parts.octave))

C1_Witness ==
    /\ op = "octave" /\ text = <<"c", "#", "-", "1">>
    /\ midiNumber = Ok(1) /\ octave = Ok(-1)

\* C10: for each sharp/flat pair and every octave for which the names are in
\* MIDI range, the sharp name and the flat name both parse, to the same
\* frequency and the same MIDI number.
C10_Enharmonic ==
    (op = "from_str" /\ pitch0 # None
        /\ parts.octave = FormatInt(DecimalValue(parts.octave))
        /\ 0 <= NameMidi /\ NameMidi <= MidiMax) =>
        /\ IsOk(pitch0) /\ IsOk(pitch)
        /\ pitch.v.frequency = pitch0.v.frequency
        /\ try_midi_number(pitch0.v) = Ok(NameMidi)
        /\ try_midi_number(pitch.v) = Ok(NameMidi)

C10_Witness ==
    /\ op = "from_str" /\ pitch0 # None /\ text = <<"A", "b", "5">>
    /\ IsOk(pitch) /\ pitch = pitch0

\* C15: from_str never returns MidiOverflow.  For a name of 2..4 bytes, an
\* octave outside -128..127 gives InvalidOctave, and an octave inside it
\* whose MIDI number is outside 0..127 gives OutOfMidiRange.
C15_NoMidiOverflow ==
    op = "from_str" =>
        /\ ~IsErrKind(pitch, "MidiOverflow")
        /\ (StrLen(text) <= MaxNameLen
               /\ (DecimalValue(parts.octave) < I8Min
                      \/ DecimalValue(parts.octave) > I8Max))
              => pitch = Err("InvalidOctave", 0)
        /\ (StrLen(text) <= MaxNameLen
               /\ I8Min <= DecimalValue(parts.octave)
               /\ DecimalValue(parts.octave) <= I8Max
               /\ (NameMidi < 0 \/ NameMidi > MidiMax))
              => IsErrKind(pitch, "OutOfMidiRange")

\* the largest octave of the type: (127 + 1) * 12 = 1536 fits in i16
C15_Witness ==
    /\ op = "from_str" /\ text = <<"C", "1", "2", "7">>
    /\ NameMidi = 1536
    /\ IsErrKind(pitch, "OutOfMidiRange")

(***************************************************************************)
(* SpecRoundTrip: the loop of test_pitch_note_from_str_roundtrip.  parts   *)
(* holds the loop variables (octave, and name as an index of sharp_names), *)
(* midi the counter.                                                       *)
(***************************************************************************)
\* sharp_names of the test
sharp_names == << <<"C">>, <<"C", "#">>, <<"D">>, <<"D", "#">>, <<"E">>, <<"F">>,
                 <<"F", "#">>, <<"G">>, <<"G", "#">>, <<"A">>, <<"A", "#">>,
                 <<"B">> >>

\* for octave in -1..=9
FirstOctave == -1

LastOctave == 9

InitRoundTrip ==
    /\ op = "init"
    /\ text = <<>>
    /\ midi = Ok(0)
    /\ hz = None
    /\ semitones = None
    /\ pitch = None
    /\ pitch0 = None
    /\ midiNumber = None
    /\ octave = None
    /\ note = None
    /\ name = None
    /\ parts = [name |-> 1, octave |-> FirstOctave]
    /\ noteParts = None

\* let original = format!("{name}{octave}")
Format ==
    /\ op \in {"init", "advance"}
    /\ text' = sharp_names[parts.name] \o FormatInt(parts.octave)
    /\ pitch' = None
    /\ pitch0' = None
    /\ midiNumber' = None
    /\ note' = None
    /\ name' = None
    /\ op' = "format"
    /\ UNCHANGED <<midi, hz, semitones, octave, parts, noteParts>>

\* The end of the loop body: break at midi >= 127, else count and go on to
\* the next name, the next octave, or out of the loops.
Advance ==
    /\ op = "try_midi_number"
    /\ IF midi.v >= MidiMax
       THEN op' = "break" /\ UNCHANGED <<midi, parts>>
       ELSE /\ midi' = Ok(midi.v + 1)
            /\ IF parts.name < Len(sharp_names)
               THEN /\ parts' = [parts EXCEPT !.name = @ + 1]
                    /\ op' = "advance"
               ELSE IF parts.octave < LastOctave
               THEN /\ parts' = [name |-> 1, octave |-> parts.octave + 1]
                    /\ op' = "advance"
               ELSE /\ op' = "end"
                    /\ UNCHANGED parts
    /\ UNCHANGED <<text, hz, semitones, pitch, pitch0, midiNumber, octave, note,
                   name, noteParts>>

NextRoundTrip ==
    \/ Format
    \/ FromStr
    \/ NoteTryFromPitch
    \/ Name
    \/ TryMidiNumber
    \/ Advance

SpecRoundTrip == InitRoundTrip /\ [][NextRoundTrip]_vars

\* C3: the i-th name of the enumeration (i the counter) parses to a pitch
\* with MIDI number i, the Note of that pitch formats to the name, and the
\* enumeration ends by the break at MIDI 127 with the name G9.
C3_NameRoundTrip ==
    /\ midi.v = (parts.octave + 1) * 12 + parts.name - 1
    /\ op = "from_str" => IsOk(pitch)
    /\ op = "note_try_from" => IsOk(note)
    /\ op = "name" => name = Ok(text)
    /\ op = "try_midi_number" => midiNumber = Ok(midi.v)
    /\ op = "break" => (midi.v = MidiMax /\ text = <<"G", "9">>)
    /\ op # "end"

C3_Witness ==
    /\ op = "break" /\ midi.v = MidiMax /\ name = Ok(<<"G", "9">>)
    /\ midiNumber = Ok(MidiMax)

(***************************************************************************)
(* SpecParse: every text of up to MaxTextLen chars whose note-part has up  *)
(* to MaxNoteLen chars, parsed and queried.  A text is a run of chars that *)
(* are neither a digit nor '-', then nothing or a digit or '-' followed by *)
(* any chars.                                                              *)
(***************************************************************************)
\* The chars of a note-part: letters, accidental signs, a letter that names
\* no note, and the blank.
NoteChars == {"C", "E", "F", "B", "b", "c", "#", "H", "U266F", "U266D", " "}

\* The chars an octave-part starts with.
SplitChars == {"-", "0", "1", "4"}

\* The chars after the first char of the octave-part.
TailChars == SplitChars \cup {"x", " "}

OctaveParts(n) ==
    IF n = 0 THEN {<<>>}
    ELSE {<<d>> \o t : d \in SplitChars, t \in TextsOfLen(TailChars, n - 1)}

\* The lengths of the note-part and of the octave-part of a text.
TextShapes ==
    {ij \in (0..MaxNoteLen) \X (0..MaxTextLen) :
        ij[1] + ij[2] <= MaxTextLen /\ ij[1] + ij[2] > 0}

InitParse ==
    /\ op = "init"
    /\ \E ij \in TextShapes :
          \E np \in TextsOfLen(NoteChars, ij[1]) : \E o \in OctaveParts(ij[2]) :
              text = np \o o
    /\ midi = None
    /\ hz = None
    /\ semitones = None
    /\ pitch = None
    /\ pitch0 = None
    /\ midiNumber = None
    /\ octave = None
    /\ note = None
    /\ name = None
    /\ parts = None
    /\ noteParts = None

NextParse ==
    \/ FromStr
    \/ TryMidiNumber
    \/ Octave

SpecParse == InitParse /\ [][NextParse]_vars

\* The chars of the text before its first digit or '-'.
TextNote(t) ==
    SubSeq(t, 1, Cardinality({i \in 1..Len(t) :
                     \A j \in 1..i : ~(is_ascii_digit(t[j]) \/ t[j] = "-")}))

\* The text from its first digit or '-' on.
TextRest(t) == SubSeq(t, Len(TextNote(t)) + 1, Len(t))

\* n is one of the 17 accepted spellings, in any case.
IsSpelling(n) ==
    \E sp \in Spellings :
        Len(n) = Len(sp) /\ \A i \in 1..Len(sp) : n[i] \in BothCases(sp[i])

\* o is a decimal text of an i8: an optional '-', digits, a value in range.
IsOctave(o) ==
    /\ o # <<>>
    /\ LET ds == IF Head(o) = "-" THEN Tail(o) ELSE o
       IN /\ ds # <<>>
          /\ \A i \in 1..Len(ds) : is_ascii_digit(ds[i])
          /\ I8Min <= DecimalValue(o) /\ DecimalValue(o) <= I8Max

\* o is an octave followed by extra chars, the first of them not a digit.
HasExtra(o) ==
    \E i \in 1..(Len(o) - 1) :
        IsOctave(SubSeq(o, 1, i)) /\ ~is_ascii_digit(o[i + 1])

NoBlank(t) == \A i \in 1..Len(t) : ~is_whitespace(t[i])

HasMarker(t) == \E i \in 1..Len(t) : t[i] \in MultiByte

\* The text with '#' for the sharp sign and 'b' for the flat sign.
AsciiMarkers(t) ==
    [i \in 1..Len(t) |-> IF t[i] = "U266F" THEN "#"
                         ELSE IF t[i] = "U266D" THEN "b" ELSE t[i]]

\* The text is a letter, then the sharp or flat sign, then an octave.
MarkedName(t) ==
    /\ Len(TextNote(t)) = 2
    /\ TextNote(t)[1] \notin MultiByte /\ TextNote(t)[2] \in MultiByte
    /\ IsOctave(TextRest(t))

\* The bytes of a text: one a char, and two more for each sharp or flat sign.
Bytes(t) == Len(t) + 2 * Cardinality({i \in 1..Len(t) : t[i] \in MultiByte})

\* C11 as stated: a name written with the sharp sign U+266F or the flat sign
\* U+266D parses to the same result as the name written with '#' or 'b'.
C11_AsStated ==
    (op = "from_str" /\ MarkedName(text) /\ IsOk(from_str(AsciiMarkers(text))))
        => pitch = from_str(AsciiMarkers(text))

\* C11, amended: only '#' and 'b' are accepted.  A text with the sign U+266F
\* or U+266D never parses: it fails with InvalidName when it is longer than
\* 4 bytes (the sign takes three), as a letter with the sign and an octave
\* is.
C11_UnicodeMarkers ==
    (op = "from_str" /\ HasMarker(text)) =>
        /\ IsErr(pitch)
        /\ Bytes(trim(text)) > MaxNameLen => pitch = Err("InvalidName", 0)
        /\ MarkedName(text) => pitch = Err("InvalidName", 0)

C11_Witness ==
    /\ op = "from_str" /\ text = <<"C", "U266F", "4">>
    /\ IsOk(from_str(AsciiMarkers(text)))
    /\ pitch = Err("InvalidName", 0)

\* The MIDI number a note name denotes: twelve to the octave, octave -1 at 0.
NameValue(s) ==
    (DecimalValue(TextRest(s)) + 1) * 12 + SpellingSemitone(TextNote(s))

\* The outcome the steps of the algorithm give for the text s, taken in
\* order: the length, the presence of an octave-part, the octave-part, the
\* note-part, the range of the MIDI number.
StepOrder(s) ==
    IF Bytes(s) < MinNameLen \/ Bytes(s) > MaxNameLen THEN "InvalidName"
    ELSE IF TextRest(s) = <<>> THEN "InvalidOctave"
    ELSE IF ~IsOctave(TextRest(s)) THEN "InvalidOctave"
    ELSE IF ~IsSpelling(TextNote(s)) THEN "InvalidName"
    ELSE IF NameValue(s) < 0 \/ NameValue(s) > MidiMax THEN "OutOfMidiRange"
    ELSE "Ok"

\* The outcome of a call: Ok or the kind of its error.
Outcome(r) == IF IsOk(r) THEN "Ok" ELSE r.err

\* C12 as stated: the outcome of parsing any text is the one the steps give
\* for that text: its length outside [2,4] gives InvalidName before anything
\* else, then no digit or '-' gives InvalidOctave, then an octave-part that
\* is no integer gives InvalidOctave, then an unmatched note-part gives
\* InvalidName, then a MIDI number outside [0,127] gives OutOfMidiRange, and
\* otherwise the parse succeeds.
C12_AsStated ==
    op = "from_str" => Outcome(pitch) = StepOrder(text)

\* C12, amended: the outcome of parsing a text is the one the steps give for
\* the text with the whitespace around it removed, its length taken in
\* bytes and its octave-part read as an 8-bit signed integer.
C12_StepOrder ==
    op = "from_str" => Outcome(pitch) = StepOrder(trim(text))

\* an octave-part that is no integer after a note-part that is no spelling
C12_Witness ==
    /\ op = "from_str" /\ text = <<"H", "4", "x">>
    /\ StepOrder(trim(text)) = "InvalidOctave"
    /\ pitch = Err("InvalidOctave", 0)

\* C13: every OutOfMidiRange error of Pitch::from_str carries the nearest
\* boundary of the MIDI number the name denotes: 0 when the number is
\* negative and 127 when it exceeds 127, never a wrapped value.
C13_ClampedHint ==
    (op = "from_str" /\ IsErrKind(pitch, "OutOfMidiRange")) =>
        pitch.n = (IF NameValue(trim(text)) < 0 THEN 0 ELSE MidiMax)

=============================================================================
